---- MODULE Spec2Model ----
(***************************************************************************)
(* Model of the apk backup / install tool (src/src/main.rs).               *)
(*                                                                         *)
(* Strings (file names, paths, typed lines, lines of command output) are   *)
(* sequences of tokens; the separators the code looks at ("/", ".", "_",   *)
(* blanks, "package:", "$date") are tokens of their own, so that trimming,  *)
(* parsing, prefix tests, replace, join, file_name, file_stem and          *)
(* extension are computed the way the code computes them.  The local       *)
(* filesystem is a function from paths to "dir" / "file".                  *)
(***************************************************************************)
EXTENDS Integers, Sequences, FiniteSets, TLC

\* ------------------------------------------------------------------ bounds
MaxPkgs    == 2   \* lines of output of `pm list packages -3`
MaxPaths   == 2   \* lines of output of `pm path <package>`
MaxRetries == 1   \* inputs the prompts of one run reject and ask again for
MaxClock   == 2   \* distinct seconds the wall clock may show

\* ------------------------------------------------------------ string helpers
WS == {" ", "\n", "\t"}
Sep == "/"
Dot == "."
Digits == <<"0", "1", "2", "3", "4", "5", "6", "7", "8", "9">>
ParseErr == 0 - 1

ToSet(s) == {s[i] : i \in 1..Len(s)}

RECURSIVE TrimStart(_)
TrimStart(s) == IF s # <<>> /\ Head(s) \in WS THEN TrimStart(Tail(s)) ELSE s

RECURSIVE TrimEnd(_)
TrimEnd(s) ==
  IF s # <<>> /\ s[Len(s)] \in WS THEN TrimEnd(SubSeq(s, 1, Len(s) - 1)) ELSE s

\* str::trim
Trim(s) == TrimEnd(TrimStart(s))

IsDigit(t) == \E d \in 1..10 : Digits[d] = t
DigitVal(t) == (CHOOSE d \in 1..10 : Digits[d] = t) - 1

RECURSIVE DecValue(_)
DecValue(s) ==
  IF s = <<>> THEN 0
  ELSE DecValue(SubSeq(s, 1, Len(s) - 1)) * 10 + DigitVal(s[Len(s)])

\* str::parse::<usize>: an optional "+", then one or more decimal digits
ParseUsize(s) ==
  LET body == IF s # <<>> /\ Head(s) = "+" THEN Tail(s) ELSE s
  IN IF body # <<>> /\ \A i \in 1..Len(body) : IsDigit(body[i])
     THEN DecValue(body) ELSE ParseErr

\* format!("{}", n) of an unsigned number
RECURSIVE ToDec(_)
ToDec(n) ==
  IF n < 10 THEN <<Digits[n + 1]>>
  ELSE ToDec(n \div 10) \o <<Digits[(n % 10) + 1]>>

\* str::replace(from, to) where `from` is one token
RECURSIVE Replace(_, _, _)
Replace(s, from, to) ==
  IF s = <<>> THEN <<>>
  ELSE (IF Head(s) = from THEN to ELSE <<Head(s)>>) \o Replace(Tail(s), from, to)

\* io::stdin().read_line: the typed text and the newline that ends it
ReadLine(typed) == typed \o <<"\n">>

\* -------------------------------------------------------------- path helpers
LastIndexOf(s, t) ==
  IF \E i \in 1..Len(s) : s[i] = t
  THEN CHOOSE i \in 1..Len(s) : s[i] = t /\ \A j \in (i + 1)..Len(s) : s[j] # t
  ELSE 0

\* Path::join: an absolute second path replaces the first
Join(a, b) == IF b # <<>> /\ Head(b) = Sep THEN b ELSE a \o <<Sep>> \o b

Parent(p) ==
  LET i == LastIndexOf(p, Sep) IN IF i = 0 THEN <<>> ELSE SubSeq(p, 1, i - 1)

\* Path::file_name, <<>> standing for None (no final component, or "..")
FileName(p) ==
  LET n == SubSeq(p, LastIndexOf(p, Sep) + 1, Len(p))
  IN IF n = <<"..">> THEN <<>> ELSE n

\* Path::extension is Some(_): a "." that is not the first token of the name
HasExtension(p) == LastIndexOf(FileName(p), Dot) > 1

\* Path::extension, when it is Some(_)
Extension(p) ==
  LET n == FileName(p) IN SubSeq(n, LastIndexOf(n, Dot) + 1, Len(n))

\* Path::file_stem (of a path that has a file name)
FileStem(p) ==
  LET n == FileName(p)
  IN IF HasExtension(p) THEN SubSeq(n, 1, LastIndexOf(n, Dot) - 1) ELSE n

\* -------------------------------------------------------------- filesystem
Exists(f, p) == p \in DOMAIN f
IsDir(f, p) == p \in DOMAIN f /\ f[p] = "dir"

\* fs::read_dir: the entries of a directory, as a set of paths
ReadDir(f, d) == {p \in DOMAIN f : p # d /\ Parent(p) = d}

\* the orders in which read_dir may yield a set of entries
Orderings(S) ==
  {s \in [1..Cardinality(S) -> S] : \A i, j \in 1..Cardinality(S) : i # j => s[i] # s[j]}

Ancestors(p) == {SubSeq(p, 1, i - 1) : i \in {j \in 2..Len(p) : p[j] = Sep}}

\* fs::create_dir / fs::create_dir_all
CreateDirAll(f, p) ==
  [q \in DOMAIN f \cup Ancestors(p) \cup {p} |-> IF q \in DOMAIN f THEN f[q] ELSE "dir"]

\* the file a successful `adb pull` leaves at p
WriteFile(f, p) == [q \in DOMAIN f \cup {p} |-> IF q = p THEN "file" ELSE f[q]]

\* ----------------------------------------------------------------- constants
BACKUP_DIR == <<"backup">>

\* Local::now().format("%Y%m%d%H%M%S"): one name per second of the clock
Timestamp(c) == <<"2026010112000">> \o ToDec(c)

\* ------------------------------------------------ the world outside the tool
\* argv: the program name, then the arguments
ArgLists == {<<"apktool">>, <<"apktool", "backup">>, <<"apktool", "install">>,
             <<"apktool", "restore">>, <<"apktool", "install", "backup">>}

\* what the user may type at a prompt that expects a number
TypedNumbers == {<<>>, <<"x">>, <<"0">>, <<"1">>, <<"2">>, <<"3">>, <<"-", "1">>,
                 <<" ", "+", "2">>}

\* what the user may type at the prompt for a backup name
TypedNames == {<<>>, <<"old">>, <<"$date">>}

\* how an invocation of adb may end: not started, non-zero status, zero status
SpawnResults == {"spawn_err", "fail", "ok"}

HeaderLine == <<"List", " ", "of", " ", "devices", " ", "attached">>
DevicesOutputs == {<<>>, <<HeaderLine>>, <<HeaderLine, <<"emulator", "\t", "device">>>>,
                   <<HeaderLine, <<"emulator", "\t", "offline">>>>,
                   <<<<"emulator", "\t", "device">>>>}

PackageLines == {<<"package:", "p1">>, <<"package:", "p2">>, <<"WARNING:", " ", "linker">>}
PathLines == {<<"package:", "/", "data", "/", "base", ".", "apk">>,
              <<"package:", "/", "data", "/", "lib">>,
              <<"package:", "/", "data", "/", "..">>}

SeqsUpTo(S, n) == UNION {[1..k -> S] : k \in 0..n}

\* a finished adb process: how it ended and the lines of its standard output
Outputs(Lines) == [res : {"ok"}, lines : Lines] \cup [res : {"spawn_err", "fail"}, lines : {<<>>}]

\* `adb version`: started (and printing its version) or not there to start
VersionOutputs == [res : {"ok", "spawn_err"}, lines : {<<>>}]

\* the backup root before the run, as earlier runs or the user left it
Old == Join(BACKUP_DIR, <<"old">>)
OldP1 == Join(Old, <<"p1">>)
Stamped == Join(BACKUP_DIR, Timestamp(1))
StampedP1 == Join(Stamped, <<"p1">>)
BaseApk == <<"base", ".", "apk">>
Base1Apk == <<"base", "_", "1", ".", "apk">>

OldP2 == Join(Old, <<"p2">>)
OldP3 == Join(Old, <<"p3">>)

InitVariants ==
  { {},
    {BACKUP_DIR},
    {BACKUP_DIR, Old, OldP1, Join(OldP1, BaseApk)},
    {BACKUP_DIR, Join(BACKUP_DIR, <<"notes">>),
     Old, Join(Old, <<"readme">>), OldP3,
     OldP1, Join(OldP1, BaseApk), Join(OldP1, Base1Apk), Join(OldP1, <<"lib">>),
     OldP2, Join(OldP2, BaseApk),
     Stamped, StampedP1, Join(StampedP1, BaseApk), Join(StampedP1, Base1Apk)} }

InitKind(p) ==
  IF p \in {BACKUP_DIR, Old, OldP1, OldP2, OldP3, Stamped, StampedP1} THEN "dir" ELSE "file"

InitFilesystems == { [p \in v |-> InitKind(p)] : v \in InitVariants }

\* -------------------------------------------------------------------- state
VARIABLES
  pc,                 \* where the process is
  args,               \* env::args()
  fs,                 \* the local filesystem: path -> "dir" | "file"
  out,                \* what was printed (stdout and stderr), in order
  adb,                \* the adb invocations made, in order, with how each ended
  result,             \* what main returned: "running", "Ok", "Err: ...", "panic"
  choice,             \* the line last read from stdin
  retries,            \* inputs rejected so far by the prompt in progress
  entries,            \* the backups listed for selection
  index,              \* the parsed selection
  selected_backup,    \* install: the backup chosen
  listing,            \* install: the entries of the chosen backup, as iterated
  pos,                \* install: entries of `listing` already handled
  timestamp,          \* new_backup: the formatted time
  target_dir,         \* perform_backup: where the packages go
  base_backup,        \* perform_backup: <<>> for None, <<path>> for Some(path)
  device_packages,    \* perform_backup: third-party packages of the device
  base_packages,      \* perform_backup: entry names of the base backup
  packages_to_backup, \* perform_backup: the computed backup set
  pkg_i,              \* perform_backup: position in packages_to_backup (0: not begun)
  package_dir,        \* extract_apk: directory of the package in progress
  apk_paths,          \* extract_apk: remote installer files of the package
  path_i              \* extract_apk: the loop's `index`

vars == <<pc, args, fs, out, adb, result, choice, retries, entries, index,
          selected_backup, listing, pos, timestamp, target_dir, base_backup,
          device_packages, base_packages, packages_to_backup, pkg_i, package_dir,
          apk_paths, path_i>>

selVars == <<entries, index, selected_backup, listing, pos>>
bkVars == <<timestamp, target_dir, base_backup, device_packages, base_packages,
            packages_to_backup, pkg_i>>
exVars == <<package_dir, apk_paths, path_i>>

Msg(text, arg) == [text |-> text, arg |-> arg]
\* an adb invocation; its output is kept for `devices` only
Cmd(cmd, cmdargs, res) == [cmd |-> cmd, args |-> cmdargs, res |-> res, lines |-> <<>>]
CmdDevices(devices) ==
  [cmd |-> "devices", args |-> <<>>, res |-> devices.res, lines |-> devices.lines]

Init ==
  /\ pc = "main"
  /\ args \in ArgLists
  /\ fs \in InitFilesystems
  /\ out = <<>>
  /\ adb = <<>>
  /\ result = "running"
  /\ choice = <<>>
  /\ retries = 0
  /\ entries = <<>>
  /\ index = 0
  /\ selected_backup = <<>>
  /\ listing = <<>>
  /\ pos = 0
  /\ timestamp = <<>>
  /\ target_dir = <<>>
  /\ base_backup = <<>>
  /\ device_packages = <<>>
  /\ base_packages = {}
  /\ packages_to_backup = <<>>
  /\ pkg_i = 0
  /\ package_dir = <<>>
  /\ apk_paths = <<>>
  /\ path_i = 0

\* -------------------------------------------------------------------- main
\* the mode taken from the last argument instead of the first
ModeOf_LastArgument(argv) ==
  IF Len(argv) < 2 THEN "usage"
  ELSE IF argv[Len(argv)] = "backup" THEN "backup"
  ELSE IF argv[Len(argv)] = "install" THEN "install"
  ELSE "invalid"

\* what main dispatches to
ModeOf(argv) ==
  IF Len(argv) < 2 THEN "usage"
  ELSE IF argv[2] = "backup" THEN "backup"
  ELSE IF argv[2] = "install" THEN "install"
  ELSE "invalid"

Main ==
  /\ pc = "main"
  /\ IF ModeOf(args) = "usage"
     THEN /\ out' = Append(out, Msg("Usage", <<>>))
          /\ result' = "Ok"
          /\ pc' = "exit"
     ELSE IF ModeOf(args) = "backup"
     THEN /\ pc' = "run_backup_mode"
          /\ UNCHANGED <<out, result>>
     ELSE IF ModeOf(args) = "install"
     THEN /\ pc' = "run_install_mode"
          /\ UNCHANGED <<out, result>>
     ELSE /\ out' = out \o <<Msg("Invalid argument", <<args[2]>>), Msg("Usage", <<>>)>>
          /\ result' = "Ok"
          /\ pc' = "exit"
  /\ UNCHANGED <<args, fs, adb, choice, retries, selVars, bkVars, exVars>>

\* ------------------------------------------------------------ device checks
\* the check passes whether or not adb could be started
is_adb_available_Always(version) == TRUE

is_adb_available(version) == version.res # "spawn_err"

Contains(line, a, b) == \E i \in 1..(Len(line) - 1) : line[i] = a /\ line[i + 1] = b

is_device_connected(devices) ==
  IF devices.res # "spawn_err"
  THEN Len(devices.lines) > 1
       /\ \E i \in 1..Len(devices.lines) : Contains(devices.lines[i], "\t", "device")
  ELSE FALSE

\* the filter_map of get_third_party_packages and get_package_paths
RECURSIVE PackageLinesOf(_)
PackageLinesOf(lines) ==
  IF lines = <<>> THEN <<>>
  ELSE (IF Head(lines) # <<>> /\ Head(Head(lines)) = "package:"
        THEN <<Trim(Replace(Head(lines), "package:", <<>>))>> ELSE <<>>)
       \o PackageLinesOf(Tail(lines))

\* the directories of the backup root, in the order read_dir yields them
BackupEntries(f) == Orderings({p \in ReadDir(f, BACKUP_DIR) : IsDir(f, p)})

ListMsgs(title, es) == <<Msg(title, <<>>)>> \o [i \in 1..Len(es) |-> Msg("entry", ToDec(i) \o <<":">> \o FileName(es[i]))]

\* the process returns from main
Return(msgs, res) ==
  /\ out' = out \o msgs
  /\ result' = res
  /\ pc' = "exit"

\* ------------------------------------------------------------- install mode
\* the lower bound of the guard off by one
InstallIndexOk_FromZero(n, len) == n >= 0 /\ n <= len

\* the guard of the match arm that accepts the parsed number
InstallIndexOk(n, len) == n >= 1 /\ n <= len

\* every package installed with the single-file command
InstallCommand_Single(apk_files) == "install"

\* the command that installs the .apk files of one package directory
InstallCommand(apk_files) == IF Len(apk_files) = 1 THEN "install" ELSE "install-multiple"

\* the .apk files of a package directory, in the order read_dir yields them
ApkFiles(f, dir) ==
  Orderings({p \in ReadDir(f, dir) : HasExtension(p) /\ Extension(p) = <<"apk">>})

InstallReport(res, path) ==
  IF res = "ok" THEN Msg("Installed package", FileName(path))
  ELSE IF res = "fail" THEN Msg("Failed to install", FileName(path))
  ELSE Msg("Failed to execute adb install", <<>>)

\* run_install_mode up to its first prompt
RunInstallMode ==
  /\ pc = "run_install_mode"
  /\ \E version \in VersionOutputs, devices \in Outputs(DevicesOutputs) :
       LET a1 == Append(adb, Cmd("version", <<>>, version.res))
           a2 == Append(a1, CmdDevices(devices))
       IN IF ~is_adb_available(version)
          THEN /\ adb' = a1
               /\ Return(<<Msg("ADB command not found", <<>>)>>, "Ok")
               /\ UNCHANGED entries
          ELSE IF ~is_device_connected(devices)
          THEN /\ adb' = a2
               /\ Return(<<Msg("Device is disconnected", <<>>)>>, "Ok")
               /\ UNCHANGED entries
          ELSE IF ~Exists(fs, BACKUP_DIR)
          THEN /\ adb' = a2
               /\ Return(<<>>, "Err: Backup directory not found")
               /\ UNCHANGED entries
          ELSE \E es \in BackupEntries(fs) :
                 /\ adb' = a2
                 /\ entries' = es
                 /\ IF es = <<>>
                    THEN Return(<<Msg("No backups found", <<>>)>>, "Ok")
                    ELSE /\ out' = out \o ListMsgs("Select backup to install", es)
                         /\ pc' = "install_prompt"
                         /\ UNCHANGED result
  /\ UNCHANGED <<args, fs, choice, retries, index, selected_backup, listing, pos,
                 bkVars, exVars>>

\* one round of the selection loop, and the listing of the selected backup
SelectBackupToInstall ==
  /\ pc = "install_prompt"
  /\ \E typed \in TypedNumbers :
       LET n == ParseUsize(Trim(ReadLine(typed)))
       IN /\ choice' = ReadLine(typed)
          /\ IF InstallIndexOk(n, Len(entries))
             THEN /\ index' = n
                  /\ UNCHANGED <<out, retries>>
                  /\ IF n \in 1..Len(entries)
                     THEN \E l \in Orderings(ReadDir(fs, entries[n])) :
                            /\ selected_backup' = entries[n]
                            /\ listing' = l
                            /\ pc' = "install_loop"
                            /\ UNCHANGED result
                     ELSE /\ result' = "panic"
                          /\ pc' = "exit"
                          /\ UNCHANGED <<selected_backup, listing>>
             ELSE /\ retries < MaxRetries
                  /\ retries' = retries + 1
                  /\ out' = Append(out, Msg("Invalid selection. Please enter a valid number.", <<>>))
                  /\ UNCHANGED <<index, selected_backup, listing, pc, result>>
  /\ UNCHANGED <<args, fs, adb, entries, pos, bkVars, exVars>>

\* one iteration of the loop over the entries of the selected backup
InstallEntry ==
  /\ pc = "install_loop"
  /\ pos < Len(listing)
  /\ LET path == listing[pos + 1]
     IN IF IsDir(fs, path)
        THEN \E apk_files \in ApkFiles(fs, path) :
               IF apk_files = <<>>
               THEN /\ out' = Append(out, Msg("No APKs found", FileName(path)))
                    /\ UNCHANGED adb
               ELSE \E res \in SpawnResults :
                      /\ adb' = Append(adb, Cmd(InstallCommand(apk_files), apk_files, res))
                      /\ out' = Append(out, InstallReport(res, path))
        ELSE UNCHANGED <<out, adb>>
  /\ pos' = pos + 1
  /\ UNCHANGED <<pc, args, fs, result, choice, retries, entries, index,
                 selected_backup, listing, bkVars, exVars>>

InstallDone ==
  /\ pc = "install_loop"
  /\ pos = Len(listing)
  /\ Return(<<>>, "Ok")
  /\ UNCHANGED <<args, fs, adb, choice, retries, selVars, bkVars, exVars>>

\* -------------------------------------------------------------- backup mode
\* run_backup_mode up to its first prompt
RunBackupMode ==
  /\ pc = "run_backup_mode"
  /\ \E version \in VersionOutputs, devices \in Outputs(DevicesOutputs) :
       LET a1 == Append(adb, Cmd("version", <<>>, version.res))
           a2 == Append(a1, CmdDevices(devices))
       IN IF ~is_adb_available(version)
          THEN /\ adb' = a1
               /\ Return(<<Msg("ADB command not found", <<>>)>>, "Ok")
               /\ UNCHANGED fs
          ELSE IF ~is_device_connected(devices)
          THEN /\ adb' = a2
               /\ Return(<<Msg("Device is disconnected", <<>>)>>, "Ok")
               /\ UNCHANGED fs
          ELSE /\ adb' = a2
               /\ fs' = IF ~Exists(fs, BACKUP_DIR) THEN CreateDirAll(fs, BACKUP_DIR) ELSE fs
               /\ pc' = "backup_mode_prompt"
               /\ UNCHANGED <<out, result>>
  /\ UNCHANGED <<args, choice, retries, selVars, bkVars, exVars>>

\* one round of the loop that asks for new or differential backup; choosing
\* "1" enters new_backup, which formats the current time before it prompts
SelectBackupMode ==
  /\ pc = "backup_mode_prompt"
  /\ \E typed \in TypedNumbers :
       /\ choice' = ReadLine(typed)
       /\ IF Trim(ReadLine(typed)) = <<"1">>
          THEN \E now \in 1..MaxClock :
                 /\ timestamp' = Timestamp(now)
                 /\ pc' = "new_backup"
                 /\ UNCHANGED <<out, retries>>
          ELSE IF Trim(ReadLine(typed)) = <<"2">>
          THEN /\ pc' = "differential_backup"
               /\ UNCHANGED <<out, retries, timestamp>>
          ELSE /\ retries < MaxRetries
               /\ retries' = retries + 1
               /\ out' = Append(out, Msg("Invalid choice. Please enter 1 or 2.", <<>>))
               /\ UNCHANGED <<pc, timestamp>>
  /\ UNCHANGED <<args, fs, adb, result, selVars, target_dir, base_backup,
                 device_packages, base_packages, packages_to_backup, pkg_i, exVars>>

\* the folder a typed backup name stands for
FolderName(trimmed, ts) ==
  IF trimmed = <<>> THEN ts ELSE Replace(trimmed, "$date", ts)

\* new_backup asks again: a name was typed and its folder exists
NameTaken(f, backup_root, trimmed, ts) ==
  trimmed # <<>> /\ Exists(f, Join(backup_root, Replace(trimmed, "$date", ts)))

\* one round of the loop of new_backup
NewBackup ==
  /\ pc = "new_backup"
  /\ \E typed \in TypedNames :
       LET trimmed == Trim(ReadLine(typed))
       IN /\ choice' = ReadLine(typed)
          /\ IF NameTaken(fs, BACKUP_DIR, trimmed, timestamp)
             THEN /\ retries < MaxRetries
                  /\ retries' = retries + 1
                  /\ out' = Append(out, Msg("Folder already exists. Try another name.", <<>>))
                  /\ UNCHANGED <<pc, target_dir, base_backup>>
             ELSE /\ target_dir' = Join(BACKUP_DIR, FolderName(trimmed, timestamp))
                  /\ base_backup' = <<>>
                  /\ pc' = "perform_backup"
                  /\ UNCHANGED <<out, retries>>
  /\ UNCHANGED <<args, fs, adb, result, selVars, timestamp, device_packages,
                 base_packages, packages_to_backup, pkg_i, exVars>>

\* the test that rejects the parsed number
DifferentialIndexInvalid(n, len) == n = 0 \/ n > len

\* differential_backup up to its call of perform_backup
DifferentialBackup ==
  /\ pc = "differential_backup"
  /\ \E es \in BackupEntries(fs) :
       /\ entries' = es
       /\ IF es = <<>>
          THEN /\ Return(<<Msg("No backups found", <<>>)>>, "Ok")
               /\ UNCHANGED <<choice, index, target_dir, base_backup>>
          ELSE \E typed \in TypedNumbers :
                 LET parsed == ParseUsize(Trim(ReadLine(typed)))
                     n == IF parsed = ParseErr THEN 0 ELSE parsed
                 IN /\ choice' = ReadLine(typed)
                    /\ index' = n
                    /\ IF DifferentialIndexInvalid(n, Len(es))
                       THEN /\ Return(ListMsgs("Select base backup", es)
                                        \o <<Msg("Invalid selection.", <<>>)>>, "Ok")
                            /\ UNCHANGED <<target_dir, base_backup>>
                       ELSE IF n \in 1..Len(es)
                       THEN /\ out' = out \o ListMsgs("Select base backup", es)
                            /\ target_dir' = es[n]
                            /\ base_backup' = <<es[n]>>
                            /\ pc' = "perform_backup"
                            /\ UNCHANGED result
                       ELSE /\ Return(ListMsgs("Select base backup", es), "panic")
                            /\ UNCHANGED <<target_dir, base_backup>>
  /\ UNCHANGED <<args, fs, adb, retries, selected_backup, listing, pos, timestamp,
                 device_packages, base_packages, packages_to_backup, pkg_i, exVars>>

\* the filter dropped: every device package is backed up again
PackagesToBackup_Unfiltered(device, base) == device

\* the filter that computes the backup set
PackagesToBackup(device, base) == SelectSeq(device, LAMBDA pkg : pkg \notin base)

\* perform_backup up to its loop
PerformBackup ==
  /\ pc = "perform_backup"
  /\ \E list \in Outputs(SeqsUpTo(PackageLines, MaxPkgs)) :
       LET fs1 == CreateDirAll(fs, target_dir)
           device == PackageLinesOf(list.lines)
           base == IF base_backup # <<>>
                   THEN {FileName(p) : p \in ReadDir(fs1, base_backup[1])}
                   ELSE {}
           todo == PackagesToBackup(device, base)
       IN /\ fs' = fs1
          /\ adb' = Append(adb, Cmd("list", <<>>, list.res))
          /\ IF list.res = "spawn_err"
             THEN /\ Return(<<>>, "Err: io")
                  /\ UNCHANGED <<device_packages, base_packages, packages_to_backup, pkg_i>>
             ELSE IF list.res = "fail"
             THEN /\ Return(<<>>, "Err: adb command failed")
                  /\ UNCHANGED <<device_packages, base_packages, packages_to_backup, pkg_i>>
             ELSE /\ device_packages' = device
                  /\ base_packages' = base
                  /\ packages_to_backup' = todo
                  /\ pkg_i' = 1
                  /\ out' = IF Len(todo) = 0
                            THEN Append(out, Msg("No package differences found for device.", <<>>))
                            ELSE out
                  /\ pc' = "backup_loop"
                  /\ UNCHANGED result
  /\ UNCHANGED <<args, choice, retries, selVars, timestamp, target_dir, base_backup, exVars>>

\* the error of get_package_paths, "" when it returns Ok
PackagePathsError(res, paths) ==
  IF res = "spawn_err" THEN "io"
  ELSE IF res = "fail" THEN "Failed to get package path"
  ELSE IF paths = <<>> THEN "Package path not found"
  ELSE ""

\* the local path extract_apk pulls an installer file to
FinalLocalPath(f, dir, apk_filename, i) ==
  LET local_apk_path == Join(dir, apk_filename)
  IN IF Exists(f, local_apk_path)
     THEN Join(dir, FileStem(local_apk_path) \o <<"_">> \o ToDec(i + 1)
                      \o (IF HasExtension(local_apk_path)
                          THEN <<Dot>> \o Extension(local_apk_path) ELSE <<>>))
     ELSE local_apk_path

\* the Err arm of the match printing what the Ok arm prints
ExtractReport_AlwaysSuccessful(err, package) == Msg("Successful", package)

\* what perform_backup prints for the Result of extract_apk
ExtractReport(err, package) ==
  IF err = "" THEN Msg("Successful", package) ELSE Msg("Failed", <<err>>)

\* the start of an iteration of perform_backup's loop: extract_apk up to its loop
ExtractApk ==
  /\ pc = "backup_loop"
  /\ pkg_i <= Len(packages_to_backup)
  /\ \E paths \in Outputs(SeqsUpTo(PathLines, MaxPaths)) :
       LET package == packages_to_backup[pkg_i]
           remote == PackageLinesOf(paths.lines)
           err == PackagePathsError(paths.res, remote)
           dir == Join(target_dir, package)
           o1 == Append(out, Msg("Backing up", package))
       IN /\ adb' = Append(adb, Cmd("path", <<package>>, paths.res))
          /\ IF err # ""
             THEN /\ out' = Append(o1, ExtractReport(err, package))
                  /\ pkg_i' = pkg_i + 1
                  /\ UNCHANGED <<pc, fs, exVars>>
             ELSE /\ out' = Append(o1, Msg("Extracting APK files", ToDec(Len(remote))))
                  /\ fs' = IF ~Exists(fs, dir) THEN CreateDirAll(fs, dir) ELSE fs
                  /\ package_dir' = dir
                  /\ apk_paths' = remote
                  /\ path_i' = 0
                  /\ pc' = "extract_loop"
                  /\ UNCHANGED pkg_i
  /\ UNCHANGED <<args, result, choice, retries, selVars, timestamp, target_dir,
                 base_backup, device_packages, base_packages, packages_to_backup>>

\* how `adb pull` may end: not started, non-zero status, zero status with the
\* file written, zero status with no file at the local path
PullResults == {"spawn_err", "fail", "ok", "missing"}

\* one iteration of extract_apk's loop over the remote installer files
PullApk ==
  /\ pc = "extract_loop"
  /\ path_i < Len(apk_paths)
  /\ LET apk_path == apk_paths[path_i + 1]
         apk_filename == FileName(apk_path)
         final_local_path == FinalLocalPath(fs, package_dir, apk_filename, path_i)
         package == packages_to_backup[pkg_i]
     IN IF apk_filename = <<>>
        THEN /\ out' = Append(out, ExtractReport("Failed to get APK file name.", package))
             /\ pkg_i' = pkg_i + 1
             /\ pc' = "backup_loop"
             /\ UNCHANGED <<fs, adb, path_i>>
        ELSE \E res \in PullResults :
               /\ res = "missing" => ~Exists(fs, final_local_path)
               /\ adb' = Append(adb, Cmd("pull", <<apk_path, final_local_path>>, res))
               /\ fs' = IF res = "ok" THEN WriteFile(fs, final_local_path) ELSE fs
               /\ IF res = "spawn_err"
                  THEN /\ out' = Append(out, ExtractReport("io", package))
                       /\ pkg_i' = pkg_i + 1
                       /\ pc' = "backup_loop"
                       /\ UNCHANGED path_i
                  ELSE /\ out' = Append(out,
                            IF res = "fail" THEN Msg("Warning: Failed to extract", apk_filename)
                            ELSE IF res = "missing" THEN Msg("Warning: was not created", apk_filename)
                            ELSE Msg("Extracted", apk_filename))
                       /\ path_i' = path_i + 1
                       /\ UNCHANGED <<pc, pkg_i>>
  /\ UNCHANGED <<args, result, choice, retries, selVars, timestamp, target_dir,
                 base_backup, device_packages, base_packages, packages_to_backup,
                 package_dir, apk_paths>>

\* extract_apk returns Ok after its loop, and perform_backup reports it
ExtractDone ==
  /\ pc = "extract_loop"
  /\ path_i = Len(apk_paths)
  /\ out' = Append(out, ExtractReport("", packages_to_backup[pkg_i]))
  /\ pkg_i' = pkg_i + 1
  /\ pc' = "backup_loop"
  /\ UNCHANGED <<args, fs, adb, result, choice, retries, selVars, timestamp, target_dir,
                 base_backup, device_packages, base_packages, packages_to_backup, exVars>>

\* perform_backup returns Ok after its loop
BackupDone ==
  /\ pc = "backup_loop"
  /\ pkg_i > Len(packages_to_backup)
  /\ Return(<<>>, "Ok")
  /\ UNCHANGED <<args, fs, adb, choice, retries, selVars, bkVars, exVars>>

Next ==
  \/ Main
  \/ RunInstallMode
  \/ SelectBackupToInstall
  \/ InstallEntry
  \/ InstallDone
  \/ RunBackupMode
  \/ SelectBackupMode
  \/ NewBackup
  \/ DifferentialBackup
  \/ PerformBackup
  \/ ExtractApk
  \/ PullApk
  \/ ExtractDone
  \/ BackupDone

Spec == Init /\ [][Next]_vars

\* ------------------------------------------------------------------ claims
HasMsg(text) == \E i \in 1..Len(out) : out[i].text = text
LastMsgIs(text) == out # <<>> /\ out[Len(out)].text = text
Transfers == {"pull", "install", "install-multiple"}
NoTransfer == \A i \in 1..Len(adb) : adb[i].cmd \notin Transfers

\* C1: once perform_backup has computed it, the backup set holds a package
\* exactly when the package is on the device and is no entry name of the base
\* backup; with no base backup it is the device's list itself.
C1_BackupSetIsDifference ==
  pkg_i >= 1 =>
    /\ \A p \in ToSet(device_packages) \cup base_packages \cup ToSet(packages_to_backup) :
         p \in ToSet(packages_to_backup)
           <=> (p \in ToSet(device_packages) /\ p \notin base_packages)
    /\ base_backup = <<>> => packages_to_backup = device_packages
    /\ (base_backup # <<>> /\ pc = "backup_loop" /\ pkg_i = 1) =>
         base_packages = {FileName(p) : p \in ReadDir(fs, base_backup[1])}

\* a differential backup whose base holds some, not all, of the device's packages
C1_Witness ==
  /\ pkg_i >= 1
  /\ base_backup # <<>>
  /\ ToSet(device_packages) \cap base_packages # {}
  /\ packages_to_backup # <<>>
  /\ Len(packages_to_backup) < Len(device_packages)

\* C2: when extract_apk is about to pull an installer file whose local path
\* exists, the alternate path it generated names no file of the package
\* directory.
C2_AlternatePathIsFree ==
  (/\ pc = "extract_loop"
   /\ path_i < Len(apk_paths)
   /\ FileName(apk_paths[path_i + 1]) # <<>>
   /\ Exists(fs, Join(package_dir, FileName(apk_paths[path_i + 1]))))
  => ~Exists(fs, FinalLocalPath(fs, package_dir, FileName(apk_paths[path_i + 1]), path_i))

\* C3: when a differential backup has completed, the directory it wrote to
\* holds no package subdirectory whose name was an entry of the base backup
\* before the operation.
C3_DifferentialHoldsOnlyNewPackages ==
  (pc = "exit" /\ result = "Ok" /\ base_backup # <<>> /\ packages_to_backup # <<>>) =>
    \A p \in ReadDir(fs, target_dir) : IsDir(fs, p) => FileName(p) \notin base_packages

\* the adb invocations made since extract_apk asked for the package's paths
PullsOfPackage ==
  LET start == CHOOSE i \in 1..Len(adb) :
                 adb[i].cmd = "path" /\ \A j \in (i + 1)..Len(adb) : adb[j].cmd # "path"
  IN {adb[j] : j \in (start + 1)..Len(adb)}

\* C9: a package is reported successful only if every pull of its installer
\* files ended with status zero and left the local file.
C9_SuccessMeansAllPulled ==
  (pc = "backup_loop" /\ LastMsgIs("Successful")) =>
    \A c \in PullsOfPackage : c.cmd = "pull" /\ c.res = "ok"

\* C10: the target directory new_backup hands to perform_backup does not exist.
C10_NewBackupTargetIsFresh ==
  (pc = "perform_backup" /\ base_backup = <<>>) => ~Exists(fs, target_dir)

\* ---- C4
Commands(kinds) == SelectSeq(adb, LAMBDA c : c.cmd \in kinds)

\* the packages extract_apk was called for, in order
PathAttempts == [i \in 1..Len(Commands({"path"})) |-> Commands({"path"})[i].args[1]]

\* the package directories an install command was issued for, in order
InstallAttempts ==
  [i \in 1..Len(Commands({"install", "install-multiple"})) |->
     Parent(Commands({"install", "install-multiple"})[i].args[1])]

EndsWithDotApk(name) ==
  Len(name) >= 3 /\ name[Len(name) - 1] = "." /\ name[Len(name)] = "apk"

\* the files with extension apk of a package subdirectory
ApksIn(dir) == {p \in ReadDir(fs, dir) : EndsWithDotApk(FileName(p))}

Installable(p) == IsDir(fs, p) /\ ApksIn(p) # {}

\* the message that reports the failure of an adb invocation for an item
FailureReportOf(c) ==
  IF c.cmd = "path"
  THEN Msg("Failed", <<IF c.res = "spawn_err" THEN "io" ELSE "Failed to get package path">>)
  ELSE IF c.cmd = "pull"
  THEN (IF c.res = "spawn_err" THEN Msg("Failed", <<"io">>)
        ELSE IF c.res = "fail" THEN Msg("Warning: Failed to extract", FileName(c.args[1]))
        ELSE Msg("Warning: was not created", FileName(c.args[1])))
  ELSE (IF c.res = "spawn_err" THEN Msg("Failed to execute adb install", <<>>)
        ELSE Msg("Failed to install", FileName(Parent(c.args[1]))))

FailedItemCommands ==
  SelectSeq(adb, LAMBDA c : c.cmd \in {"path"} \cup Transfers /\ c.res # "ok")

IsCommandFailureReport(m) ==
  \/ m.text \in {"Warning: Failed to extract", "Warning: was not created",
                 "Failed to install", "Failed to execute adb install"}
  \/ m.text = "Failed" /\ m.arg \in {<<"io">>, <<"Failed to get package path">>}

PackageReports == SelectSeq(out, LAMBDA m : m.text \in {"Successful", "Failed"})

DeviceListed(lines) == \E i \in 1..Len(lines) : Contains(lines[i], "\t", "device")
FirstArg == IF Len(args) >= 2 THEN args[2] ELSE ""
NoBackupDirs == ~\E p \in ReadDir(fs, BACKUP_DIR) : IsDir(fs, p)

AdbMissing == Len(adb) >= 1 /\ adb[1].res = "spawn_err"
NoDevice == Len(adb) >= 2 /\ ~DeviceListed(adb[2].lines)
\* install mode found adb and a device and finds no backup root
RootAbsent == FirstArg = "install" /\ ~Exists(fs, BACKUP_DIR) /\ out = <<>>
NoBackups == HasMsg("No backups found")

\* C5 as stated: after each of the four precondition failures the process has
\* ended with a successful result, having issued no pull or install command.
C5_PreconditionFailureEndsOk ==
  (pc = "exit" /\ (AdbMissing \/ NoDevice \/ RootAbsent \/ NoBackups)) =>
    (result = "Ok" /\ NoTransfer)

\* C5 amended: a missing adb, no connected device and an empty backup root end
\* the mode with a message and main returns Ok; a missing backup root in
\* install mode makes main return an error that carries the message; in all
\* four cases nothing panics and no pull or install command is issued.
C5_PreconditionFailureAborts ==
  pc = "exit" =>
    /\ AdbMissing =>
         (result = "Ok" /\ LastMsgIs("ADB command not found") /\ Len(adb) = 1)
    /\ NoDevice =>
         (result = "Ok" /\ LastMsgIs("Device is disconnected") /\ Len(adb) = 2)
    /\ RootAbsent => (result = "Err: Backup directory not found" /\ NoTransfer)
    /\ NoBackups => (result = "Ok" /\ NoTransfer /\ NoBackupDirs)
    /\ (FirstArg = "install" /\ Len(adb) >= 2 /\ Exists(fs, BACKUP_DIR) /\ NoBackupDirs
          /\ ~HasMsg("Device is disconnected"))
         => NoBackups

\* install mode, adb and a device found, the backup root missing
C5_Witness == pc = "exit" /\ RootAbsent /\ Len(adb) = 2 /\ result # "Ok"

\* ---- C6
BackupPcs == {"run_backup_mode", "backup_mode_prompt", "new_backup",
              "differential_backup", "perform_backup", "backup_loop", "extract_loop"}
InstallPcs == {"run_install_mode", "install_prompt", "install_loop"}

\* C6: the first argument alone selects the mode: `backup` runs backup mode,
\* `install` install mode; with no argument or another value the program
\* prints usage, returns Ok, invokes adb never and leaves the filesystem as
\* it is.
C6_FirstArgumentSelectsMode ==
  /\ [](/\ FirstArg = "backup" => pc \in BackupPcs \cup {"main", "exit"}
        /\ FirstArg = "install" => pc \in InstallPcs \cup {"main", "exit"}
        /\ FirstArg \notin {"backup", "install"} =>
             /\ pc \in {"main", "exit"}
             /\ adb = <<>>
             /\ pc = "exit" => (result = "Ok" /\ LastMsgIs("Usage")))
  /\ [][/\ (pc = "main" /\ FirstArg = "backup") => pc' = "run_backup_mode"
        /\ (pc = "main" /\ FirstArg = "install") => pc' = "run_install_mode"
        /\ FirstArg \notin {"backup", "install"} => fs' = fs]_vars

\* an unrecognized first argument, usage printed, the process ended
C6_Witness ==
  /\ pc = "exit"
  /\ Len(args) >= 2
  /\ FirstArg \notin {"backup", "install"}
  /\ HasMsg("Invalid argument")
  /\ LastMsgIs("Usage")

\* ---- C7
InstallsFor(dir) ==
  SelectSeq(adb, LAMBDA c : c.cmd \in {"install", "install-multiple"}
                            /\ Parent(c.args[1]) = dir)

\* C7: each entry of the selected backup the loop has handled got exactly one
\* command if it is a directory holding files with extension apk (`install`
\* with the one file, `install-multiple` with all of two or more), and no
\* command otherwise (a directory without such files is reported as skipped);
\* entries not handled yet got none.
C7_OneInstallPerPackage ==
  \A i \in 1..Len(listing) :
    LET dir == listing[i]
        cmds == InstallsFor(dir)
    IN IF i <= pos /\ Installable(dir)
       THEN /\ Len(cmds) = 1
            /\ ToSet(cmds[1].args) = ApksIn(dir)
            /\ Len(cmds[1].args) = Cardinality(ApksIn(dir))
            /\ cmds[1].cmd = IF Cardinality(ApksIn(dir)) = 1
                             THEN "install" ELSE "install-multiple"
       ELSE /\ cmds = <<>>
            /\ (i <= pos /\ IsDir(fs, dir)) =>
                 \E k \in 1..Len(out) : out[k] = Msg("No APKs found", FileName(dir))

\* a backup with a one-file package, a several-file package, a package
\* directory without .apk files and a plain file, all handled
C7_Witness ==
  /\ pc = "exit"
  /\ selected_backup # <<>>
  /\ \E i \in 1..Len(adb) : adb[i].cmd = "install"
  /\ \E i \in 1..Len(adb) : adb[i].cmd = "install-multiple" /\ Len(adb[i].args) = 2
  /\ HasMsg("No APKs found")
  /\ \E i \in 1..Len(listing) : ~IsDir(fs, listing[i])

\* ---- C8
EnteredIndex == ParseUsize(Trim(choice))

\* C8: install mode goes on only with the listed backup at the entered index,
\* an integer in 1..N, and asks again after any other input; differential
\* backup goes on only with the listed backup at the entered index and
\* otherwise prints a message and returns Ok, leaving the filesystem and the
\* adb log as they were; no index ever falls outside the list.
C8_SelectionInRange ==
  /\ [](/\ result # "panic"
        /\ selected_backup # <<>> =>
             (EnteredIndex \in 1..Len(entries) /\ selected_backup = entries[EnteredIndex])
        /\ (pc = "install_prompt" /\ choice # <<>>) =>
             (EnteredIndex \notin 1..Len(entries) /\ LastMsgIs("Invalid selection. Please enter a valid number."))
        /\ base_backup # <<>> =>
             /\ EnteredIndex \in 1..Len(entries)
             /\ base_backup = <<entries[EnteredIndex]>>
             /\ target_dir = entries[EnteredIndex]
        /\ (pc = "exit" /\ FirstArg = "backup" /\ entries # <<>> /\ base_backup = <<>>) =>
             (EnteredIndex \notin 1..Len(entries) /\ LastMsgIs("Invalid selection.")
              /\ result = "Ok" /\ Len(adb) = 2))
  /\ [][(pc = "differential_backup" /\ pc' = "exit") => (fs' = fs /\ adb' = adb)]_vars

\* install mode asked again after a rejected input and then went on with the
\* second of two listed backups
C8_Witness ==
  /\ pc = "install_loop"
  /\ HasMsg("Invalid selection. Please enter a valid number.")
  /\ Len(entries) = 2
  /\ selected_backup = entries[2]

====
